---- MODULE Spec2Model ----
(***************************************************************************)
(* Piece commitments of a sector: filecoin-proofs/src/pieces.rs.           *)
(*                                                                         *)
(* verify_pieces / compute_comm_d reduce an ordered list of PieceInfo on a *)
(* stack into the data commitment comm_d, inserting zero pieces so that    *)
(* every piece sits at a multiple of its own size.                         *)
(*                                                                         *)
(* Commitments are terms: <<n>> is a 32-byte block (<<0>> is the all-zero  *)
(* block, <<j>> with j > 0 the opaque commitment of a client piece) and    *)
(* <<a, b>> is the piece hash of the blocks a and b.  Two terms are equal  *)
(* exactly when they were computed the same way, which is the contract of  *)
(* a collision-resistant hash.  Sizes are byte counts.                     *)
(***************************************************************************)
EXTENDS Integers, Sequences, FiniteSets, TLC

\* ------------------------------------------------------------------ bounds
\* Longest piece list handed to compute_comm_d.
MaxPieces == 4
\* Piece sizes are 127 * 2^k for k in 0..MaxSizeExp (plus the odd sizes below).
MaxSizeExp == 3
\* Sector sizes are 128 * 2^k padded bytes for k in 0..MaxSectorExp.
MaxSectorExp == 5
\* The final padding loop is followed until the top of the stack has grown
\* to 127 * 2^(MaxSectorExp + MaxGrowExp) bytes; a run that gets there keeps
\* doubling for ever and is left at that point.
MaxGrowExp == 2

\* get_piece_alignment is called with written_bytes in 0..MaxWritten and
\* piece_bytes in 0..MaxIncoming.
MaxWritten == 300
MaxIncoming == 520
\* Longest list of staged piece sizes handed to sum_piece_bytes_with_alignment
\* and get_piece_start_byte.
MaxStaged == 3
\* Longest list of staged piece sizes handed to get_aligned_source.
MaxSourceStaged == 1
\* write_padded is given 0..MaxChunks chunks of 127 bytes.
MaxChunks == 2
\* reduce1 is called on stacks of up to MaxStack entries.
MaxStack == 3
\* zero_padding is called on 127 * 2^k for k in 0..MaxZeroExp.
MaxZeroExp == 5

\* --------------------------------------------------------------- constants
\* MINIMUM_RESERVED_BYTES_FOR_PIECE_IN_FULLY_ALIGNED_SECTOR
MINIMUM_PIECE_SIZE == 127

\* ----------------------------------------------------------- byte amounts
\* PaddedBytesAmount::from(UnpaddedBytesAmount): every 127 bytes become 128,
\* an incomplete chunk is rounded up.
ToPaddedBytes(unpadded) == (unpadded * 128 + 126) \div 127

\* UnpaddedBytesAmount::from(SectorSize) / from(PaddedBytesAmount).
ToUnpaddedBytes(padded) == (padded * 127) \div 128

\* u64::is_power_of_two
RECURSIVE IsPowerOfTwo(_)
IsPowerOfTwo(n) ==
    IF n <= 0 THEN FALSE
    ELSE IF n = 1 THEN TRUE
    ELSE n % 2 = 0 /\ IsPowerOfTwo(n \div 2)

\* --------------------------------------------------------------- piece hash
\* The 32-byte all-zero block, [0u8; 32].
ZeroBlock == <<0>>

\* piece_hash(a, b): the hash of the 64-byte buffer a ++ b.
piece_hash(a, b) == <<a, b>>

\* PieceInfo::new
PieceInfo(commitment, size) == [commitment |-> commitment, size |-> size]

\* Variant of join_piece_infos that hashes the operands in the other order.
join_piece_infos_swapped(left, right) ==
    PieceInfo(piece_hash(right.commitment, left.commitment), left.size + right.size)

\* join_piece_infos(left, right): left is the left operand of the hash.
join_piece_infos(left, right) ==
    PieceInfo(piece_hash(left.commitment, right.commitment), left.size + right.size)

\* Variant of the loop that hashes once more when hashed_size has reached
\* padded_size.
RECURSIVE zero_padding_loop_inclusive(_, _, _)
zero_padding_loop_inclusive(commitment, hashed_size, padded_size) ==
    IF hashed_size <= padded_size
    THEN zero_padding_loop_inclusive(piece_hash(commitment, commitment), hashed_size * 2,
                                     padded_size)
    ELSE [commitment |-> commitment, hashed_size |-> hashed_size]

\* The loop of zero_padding: one self-hash per doubling of hashed_size.
RECURSIVE zero_padding_loop(_, _, _)
zero_padding_loop(commitment, hashed_size, padded_size) ==
    IF hashed_size < padded_size
    THEN zero_padding_loop(piece_hash(commitment, commitment), hashed_size * 2, padded_size)
    ELSE [commitment |-> commitment, hashed_size |-> hashed_size]

\* Variant of zero_padding that counts the first hash as 128 hashed bytes.
zero_padding_from_128(size) ==
    LET padded_size == ToPaddedBytes(size)
        r == zero_padding_loop(piece_hash(ZeroBlock, ZeroBlock), 128, padded_size)
    IN  [asserted |-> (r.hashed_size = padded_size),
         piece |-> PieceInfo(r.commitment, size)]

\* zero_padding(size).  asserted is the outcome of
\* assert_eq!(hashed_size, padded_size); the call panics when it is FALSE.
zero_padding(size) ==
    LET padded_size == ToPaddedBytes(size)
        r == zero_padding_loop(piece_hash(ZeroBlock, ZeroBlock), 64, padded_size)
    IN  [asserted |-> (r.hashed_size = padded_size),
         piece |-> PieceInfo(r.commitment, size)]

\* -------------------------------------------------------------------- Stack
\* Stack::new
StackNew == << >>

\* Stack::shift
shift(s, el) == Append(s, el)

\* Stack::peek
peek(s) == s[Len(s)]

\* Stack::peek2
peek2(s) == s[Len(s) - 1]

\* Stack::pop: the stack without its last element.
pop(s) == SubSeq(s, 1, Len(s) - 1)

\* Variant of reduce1 that joins the two top entries whatever their sizes.
reduce1_any_size(s) ==
    IF Len(s) < 2 THEN [stack |-> s, reduced |-> FALSE]
    ELSE [stack |-> shift(pop(pop(s)), join_piece_infos(peek(pop(s)), peek(s))),
          reduced |-> TRUE]

\* Variant of reduce1 that pops the right entry only.
reduce1_single_pop(s) ==
    IF Len(s) < 2 THEN [stack |-> s, reduced |-> FALSE]
    ELSE IF peek(s).size = peek2(s).size
         THEN LET right == peek(s)
                  left == peek(pop(s))
              IN  [stack |-> shift(pop(s), join_piece_infos(left, right)),
                   reduced |-> TRUE]
         ELSE [stack |-> s, reduced |-> FALSE]

\* Stack::reduce1: [stack, reduced], reduced being the returned bool.
reduce1(s) ==
    IF Len(s) < 2 THEN [stack |-> s, reduced |-> FALSE]
    ELSE IF peek(s).size = peek2(s).size
         THEN LET right == peek(s)
                  left == peek(pop(s))
              IN  [stack |-> shift(pop(pop(s)), join_piece_infos(left, right)),
                   reduced |-> TRUE]
         ELSE [stack |-> s, reduced |-> FALSE]

\* Stack::reduce: while self.reduce1() {}
RECURSIVE reduce(_)
reduce(s) ==
    LET r == reduce1(s)
    IN  IF r.reduced THEN reduce(r.stack) ELSE s

\* Stack::shift_reduce
shift_reduce(s, piece) == reduce(shift(s, piece))

\* ---------------------------------------------- compute_comm_d as a function
\* The stack part of compute_comm_d, for a list that passes its checks and
\* whose zero_padding calls all succeed, as a function of the list.

\* while stack.peek().size < piece_info.size { shift_reduce(zero_padding(..)) }
RECURSIVE pad_to_piece(_, _)
pad_to_piece(s, size) ==
    IF peek(s).size < size
    THEN pad_to_piece(shift_reduce(s, zero_padding(peek(s).size).piece), size)
    ELSE s

\* for piece_info in piece_infos.iter().skip(1) { pad; shift_reduce(piece_info) }
RECURSIVE fold_pieces(_, _, _)
fold_pieces(s, pieces, i) ==
    IF i > Len(pieces) THEN s
    ELSE fold_pieces(shift_reduce(pad_to_piece(s, pieces[i].size), pieces[i]), pieces, i + 1)

\* while stack.len() > 1 { shift_reduce(zero_padding(stack.peek().size)) }
RECURSIVE pad_to_root(_)
pad_to_root(s) ==
    IF Len(s) > 1
    THEN pad_to_root(shift_reduce(s, zero_padding(peek(s).size).piece))
    ELSE s

\* stack.shift(first); the for loop; the final loop; stack.pop().commitment
comm_d_of(pieces) ==
    peek(pad_to_root(fold_pieces(shift(StackNew, pieces[1]), pieces, 2))).commitment

\* ------------------------------------------------------------- alignment
\* PieceAlignment { left_bytes, right_bytes }
PieceAlignment(left_bytes, right_bytes) ==
    [left_bytes |-> left_bytes, right_bytes |-> right_bytes]

\* Variant of PieceAlignment::sum that leaves the right padding out.
alignment_sum_without_right(alignment, piece_size) ==
    alignment.left_bytes + piece_size

\* PieceAlignment::sum
alignment_sum(alignment, piece_size) ==
    alignment.left_bytes + piece_size + alignment.right_bytes

\* Variant of the loop that also doubles when the slot is exactly the piece.
RECURSIVE piece_bytes_needed_loop_inclusive(_, _)
piece_bytes_needed_loop_inclusive(piece_bytes_needed, piece_bytes) ==
    IF piece_bytes_needed <= piece_bytes
    THEN piece_bytes_needed_loop_inclusive(piece_bytes_needed * 2, piece_bytes)
    ELSE piece_bytes_needed

\* while piece_bytes_needed < piece_bytes { piece_bytes_needed *= 2 }
RECURSIVE piece_bytes_needed_loop(_, _)
piece_bytes_needed_loop(piece_bytes_needed, piece_bytes) ==
    IF piece_bytes_needed < piece_bytes
    THEN piece_bytes_needed_loop(piece_bytes_needed * 2, piece_bytes)
    ELSE piece_bytes_needed

\* Variant of get_piece_alignment whose right padding is what the left
\* padding leaves of the slot.
get_piece_alignment_shared_slot(written_bytes, piece_bytes) ==
    LET piece_bytes_needed == piece_bytes_needed_loop(MINIMUM_PIECE_SIZE, piece_bytes)
        encroaching == written_bytes % piece_bytes_needed
        left_bytes == IF encroaching > 0 THEN piece_bytes_needed - encroaching ELSE 0
    IN  PieceAlignment(left_bytes, piece_bytes_needed - piece_bytes - left_bytes)

\* Variant of get_piece_alignment that pushes a whole slot when nothing
\* encroaches.
get_piece_alignment_full_slot(written_bytes, piece_bytes) ==
    LET piece_bytes_needed == piece_bytes_needed_loop(MINIMUM_PIECE_SIZE, piece_bytes)
        encroaching == written_bytes % piece_bytes_needed
    IN  PieceAlignment(piece_bytes_needed - encroaching,
                       piece_bytes_needed - piece_bytes)

\* get_piece_alignment(written_bytes, piece_bytes)
get_piece_alignment(written_bytes, piece_bytes) ==
    LET piece_bytes_needed == piece_bytes_needed_loop(MINIMUM_PIECE_SIZE, piece_bytes)
        encroaching == written_bytes % piece_bytes_needed
        left_bytes == IF encroaching > 0 THEN piece_bytes_needed - encroaching ELSE 0
        right_bytes == piece_bytes_needed - piece_bytes
    IN  PieceAlignment(left_bytes, right_bytes)

\* The fold of sum_piece_bytes_with_alignment over the first n pieces.
RECURSIVE sum_fold(_, _)
sum_fold(pieces, n) ==
    IF n = 0 THEN 0
    ELSE LET acc == sum_fold(pieces, n - 1)
         IN  acc + alignment_sum(get_piece_alignment(acc, pieces[n]), pieces[n])

\* sum_piece_bytes_with_alignment(pieces)
sum_piece_bytes_with_alignment(pieces) == sum_fold(pieces, Len(pieces))

\* Variant of get_piece_start_byte that also adds the right padding.
get_piece_start_byte_with_right(pieces, piece_bytes) ==
    LET last_byte == sum_piece_bytes_with_alignment(pieces)
        alignment == get_piece_alignment(last_byte, piece_bytes)
    IN  last_byte + alignment.left_bytes + alignment.right_bytes

\* get_piece_start_byte(pieces, piece_bytes)
get_piece_start_byte(pieces, piece_bytes) ==
    LET last_byte == sum_piece_bytes_with_alignment(pieces)
        alignment == get_piece_alignment(last_byte, piece_bytes)
    IN  last_byte + alignment.left_bytes

\* ----------------------------------------------------------- aligned source
\* vec![0; n]
Zeros(n) == [i \in 1..n |-> 0]

\* Cursor::new(vec): an in-memory reader at position 0.
Cursor(bytes) == [inner |-> bytes, pos |-> 0]

Min(a, b) == IF a < b THEN a ELSE b

\* Cursor::read with a buffer of n bytes: what is left, at most n bytes.
cursor_read(c, n) ==
    LET k == Min(n, Len(c.inner) - c.pos)
    IN  [reader |-> [c EXCEPT !.pos = c.pos + k],
         bytes |-> SubSeq(c.inner, c.pos + 1, c.pos + k)]

\* first.chain(second)
Chain(first, second) == [first |-> first, second |-> second, done_first |-> FALSE]

\* Chain::read of left_padding.chain(source), n > 0: the first reader until
\* it returns 0 bytes, from then on the second.
inner_chain_read(ch, n) ==
    LET r1 == cursor_read(ch.first, n)
        r2 == cursor_read(ch.second, n)
    IN  IF ~ch.done_first /\ Len(r1.bytes) > 0
        THEN [reader |-> [ch EXCEPT !.first = r1.reader], bytes |-> r1.bytes]
        ELSE [reader |-> [ch EXCEPT !.done_first = TRUE, !.second = r2.reader],
              bytes |-> r2.bytes]

\* Chain::read of (left_padding.chain(source)).chain(right_padding), n > 0.
outer_chain_read(ch, n) ==
    LET r1 == inner_chain_read(ch.first, n)
        r2 == cursor_read(ch.second, n)
    IN  IF ~ch.done_first /\ Len(r1.bytes) > 0
        THEN [reader |-> [ch EXCEPT !.first = r1.reader], bytes |-> r1.bytes]
        ELSE IF ~ch.done_first
             THEN [reader |-> [ch EXCEPT !.done_first = TRUE, !.first = r1.reader,
                                         !.second = r2.reader],
                   bytes |-> r2.bytes]
             ELSE [reader |-> [ch EXCEPT !.second = r2.reader], bytes |-> r2.bytes]

\* Variant of with_alignment that chains the paddings on the wrong sides.
with_alignment_swapped_padding(source, piece_alignment) ==
    LET left_padding == Cursor(Zeros(piece_alignment.left_bytes))
        right_padding == Cursor(Zeros(piece_alignment.right_bytes))
    IN  Chain(Chain(right_padding, source), left_padding)

\* with_alignment(source, piece_alignment)
with_alignment(source, piece_alignment) ==
    LET left_padding == Cursor(Zeros(piece_alignment.left_bytes))
        right_padding == Cursor(Zeros(piece_alignment.right_bytes))
    IN  Chain(Chain(left_padding, source), right_padding)

\* get_aligned_source(source, pieces, piece_bytes)
get_aligned_source(source, pieces, piece_bytes) ==
    LET written == sum_piece_bytes_with_alignment(pieces)
        alignment == get_piece_alignment(written, piece_bytes)
    IN  [expected_num_bytes_written |->
             alignment.left_bytes + piece_bytes + alignment.right_bytes,
         piece_alignment |-> alignment,
         reader |-> with_alignment(source, alignment)]

\* ---------------------------------------------------------- padding (fr32)
\* Bit k (from 0, least significant bit of a byte first) of a byte string.
BitOf(bytes, k) == (bytes[(k \div 8) + 1] \div (2 ^ (k % 8))) % 2

\* The byte made of the eight bits bit[0] .. bit[7], least significant first.
ByteOf(bit) ==
    bit[0] + 2 * bit[1] + 4 * bit[2] + 8 * bit[3]
    + 16 * bit[4] + 32 * bit[5] + 64 * bit[6] + 128 * bit[7]

\* Bit m of the padded stream: every 254 data bits are followed by two zero
\* bits, so that each 32-byte word holds one 254-bit field element.
PaddedBit(data, m) ==
    IF m % 256 >= 254 THEN 0
    ELSE LET k == (m \div 256) * 254 + (m % 256)
         IN  IF k < 8 * Len(data) THEN BitOf(data, k) ELSE 0

\* write_padded(source, target): the bytes written to target.
write_padded(data) ==
    [i \in 1..ToPaddedBytes(Len(data)) |->
        ByteOf([b \in 0..7 |-> PaddedBit(data, 8 * (i - 1) + b)])]

\* Position in the padded stream of data bit k.
PaddedPosition(k) == (k \div 254) * 256 + (k % 254)

\* write_unpadded(source, target, offset, len): the len unpadded bytes from
\* unpadded offset on, or the ShortRead error when source ends before them.
write_unpadded(source, offset, len) ==
    IF len > 0 /\ PaddedPosition(8 * (offset + len) - 1) >= 8 * Len(source)
    THEN [error |-> "ShortRead", bytes |-> << >>]
    ELSE [error |-> "none",
          bytes |-> [i \in 1..len |->
                       ByteOf([b \in 0..7 |->
                           BitOf(source, PaddedPosition(8 * (offset + i - 1) + b))])]]

\* ------------------------------------------------------------------- inputs
\* Sizes that are not 127 * 2^k: below the minimum piece size (31, 63), and
\* neither a multiple of 127 nor padded to a power of two (100).
OddSizes == {31, 63, 100}

PieceSizes == {127 * (2 ^ k) : k \in 0..MaxSizeExp} \cup OddSizes

SectorSizes == {128 * (2 ^ k) : k \in 0..MaxSectorExp}

\* Cap on the size of the top entry the final loop is followed to.
SizeLimit == 127 * (2 ^ (MaxSectorExp + MaxGrowExp))

SizeLists == UNION {[1..n -> PieceSizes] : n \in 0..MaxPieces}

\* The piece at position j carries the opaque commitment <<j>>.
PiecesOf(sizes) == [j \in 1..Len(sizes) |-> PieceInfo(<<j>>, sizes[j])]

\* Values a caller may claim as comm_d: the commitment of the first piece,
\* the hash of the first two, and the root for a piece of 127 bytes followed
\* by one of 254 bytes.
ClaimedCommitments ==
    {<<1>>,
     piece_hash(<<1>>, <<2>>),
     piece_hash(piece_hash(<<1>>, zero_padding(127).piece.commitment), <<2>>)}

NoPiece == PieceInfo(ZeroBlock, 0)

\* The entries of the stacks reduce1 is called on.
UnitPieces == {PieceInfo(<<j>>, 127 * (2 ^ k)) : j \in 1..2, k \in 0..1}

UnitStacks == UNION {[1..n -> UnitPieces] : n \in 0..MaxStack}

\* The sizes zero_padding is called on: 127 * 2^k, and sizes whose padded
\* size is not 64 * 2^n.
ZeroSizes == {127 * (2 ^ k) : k \in 0..MaxZeroExp} \cup OddSizes \cup {126}

\* No stack operation has been made.
NoPeak == [rest |-> 0, shifted |-> 0]

\* Unpadded piece sizes handed to the alignment functions.
StagedSizes == {0, 31, 32, 33, 100, 127, 254, 300}

StagedLists == UNION {[1..n -> StagedSizes] : n \in 0..MaxStaged}

SourceStagedLists == UNION {[1..n -> StagedSizes] : n \in 0..MaxSourceStaged}

\* Lengths of the source handed to get_aligned_source for a piece of
\* piece_bytes bytes: empty, one byte short, exact, one byte more.
SourceLens(piece_bytes) == {n \in {0, piece_bytes - 1, piece_bytes, piece_bytes + 1} : n >= 0}

\* A source of len non-zero bytes.
SourceBytes(len) == [i \in 1..len |-> ((i - 1) % 255) + 1]

\* Buffer sizes of the reads made on the aligned source.
ReadSizes == {64, 256}

\* The data given to write_padded: byte i is (i * mul + add) mod 256.
DataBytes(len, mul, add) == [i \in 1..len |-> (i * mul + add) % 256]

DataMuls == {0, 1, 37}

\* Lengths of the data: the multiples of 127 up to MaxChunks chunks, and
\* the smallest size of the benchmark.
DataLens == {127 * chunks : chunks \in 0..MaxChunks} \cup {128}

DataAdds == {0, 170, 255}

NoAlignment == PieceAlignment(0, 0)

NoReader == Chain(Chain(Cursor(<< >>), Cursor(<< >>)), Cursor(<< >>))

\* io::Result<usize> of a read: Ok(n); NoRead before the first read.
ReadOk(n) == [kind |-> "Ok", n |-> n]

NoRead == [kind |-> "none", n |-> 0]

\* Result<bool>: Ok(value) and Err(error); NoResult before the return.
Ok(value) == [kind |-> "Ok", value |-> value, error |-> "none"]

Err(msg) == [kind |-> "Err", value |-> FALSE, error |-> msg]

NoResult == [kind |-> "none", value |-> FALSE, error |-> "none"]

\* -------------------------------------------------------------------- state
VARIABLES
    sector_size,        \* argument of verify_pieces / compute_comm_d
    piece_infos,        \* argument of verify_pieces / compute_comm_d
    comm_d,             \* the commitment claimed to verify_pieces
    pc,                 \* position in compute_comm_d / verify_pieces
    stack,              \* the reduction stack of compute_comm_d
    idx,                \* index of the piece the for loop is at
    outcome,            \* "running", "ok", "err" or "panic"
    error,              \* the error message kind when outcome = "err"
    root,               \* the PieceInfo popped by the final stack.pop()
    comm_d_calculated,  \* the value compute_comm_d returns
    zero_calls,         \* number of zero_padding calls made so far
    verify_result,      \* what verify_pieces returns
    peak,               \* history: the largest stack.len() seen so far, after a
                        \* reduce() (rest) and after a shift (shifted)
    call,               \* the function of the alignment / padding API last called
    staged_pieces,      \* its argument pieces: the sizes already staged
    written_bytes,      \* its argument or local written_bytes / last_byte
    piece_bytes,        \* its argument piece_bytes
    piece_alignment,    \* the PieceAlignment it computed
    num_bytes,          \* the UnpaddedBytesAmount it returned
    start_byte,         \* the UnpaddedByteIndex it returned
    reader,             \* the reader returned by get_aligned_source
    sink,               \* the bytes read from that reader so far
    read_result,        \* what the last read on that reader returned
    data,               \* the data given to write_padded
    padded,             \* the bytes written by write_padded
    unpadded,           \* what write_unpadded returned
    stack_before,       \* the stack reduce1 was called on
    stack_after,        \* the stack reduce1 left
    reduced,            \* the bool reduce1 returned
    padding             \* what zero_padding(piece_bytes) returned

\* The state of verify_pieces / compute_comm_d.
compute == <<sector_size, piece_infos, comm_d, pc, stack, idx, outcome, error,
             root, comm_d_calculated, zero_calls, verify_result, peak>>

\* The state of the alignment and padding calls.
api == <<call, staged_pieces, written_bytes, piece_bytes, piece_alignment, num_bytes,
         start_byte, reader, sink, read_result, data, padded, unpadded>>

\* The state of the calls of reduce1 and zero_padding on their own.
unit == <<stack_before, stack_after, reduced, padding>>

vars == <<compute, api, unit>>

inputs == <<sector_size, piece_infos, api, unit>>

\* Neither reduce1 nor zero_padding has been called on its own.
UnitIdle ==
    /\ stack_before = StackNew
    /\ stack_after = StackNew
    /\ reduced = FALSE
    /\ padding = [asserted |-> TRUE, piece |-> NoPiece]

\* No alignment or padding call has been made.
ApiIdle ==
    /\ call = "none"
    /\ staged_pieces = << >>
    /\ written_bytes = 0
    /\ piece_bytes = 0
    /\ piece_alignment = NoAlignment
    /\ num_bytes = 0
    /\ start_byte = 0
    /\ reader = NoReader
    /\ sink = << >>
    /\ read_result = NoRead
    /\ data = << >>
    /\ padded = << >>
    /\ unpadded = [error |-> "none", bytes |-> << >>]

Init ==
    /\ sector_size \in SectorSizes
    /\ \E sizes \in SizeLists : piece_infos = PiecesOf(sizes)
    /\ comm_d = ZeroBlock
    /\ pc = "check_empty"
    /\ stack = StackNew
    /\ idx = 0
    /\ outcome = "running"
    /\ error = "none"
    /\ root = NoPiece
    /\ comm_d_calculated = ZeroBlock
    /\ zero_calls = 0
    /\ verify_result = NoResult
    /\ peak = NoPeak
    /\ ApiIdle
    /\ UnitIdle

\* peak after stack.shift(el) on the stack before.
AfterShift(p, before) ==
    [p EXCEPT !.shifted = IF Len(before) + 1 > @ THEN Len(before) + 1 ELSE @]

\* peak after stack.shift_reduce(el) took the stack from before to after.
AfterShiftReduce(p, before, after) ==
    [AfterShift(p, before) EXCEPT !.rest = IF Len(after) > @ THEN Len(after) ELSE @]

\* ensure!(cond, msg) failing: compute_comm_d returns Err(msg).
Bail(msg) ==
    /\ pc' = "done"
    /\ outcome' = "err"
    /\ error' = msg
    /\ UNCHANGED <<stack, peak, idx, root, comm_d_calculated, zero_calls>>

\* A failed assertion unwinds through compute_comm_d and verify_pieces.
Panic ==
    /\ pc' = "panicked"
    /\ outcome' = "panic"
    /\ UNCHANGED <<stack, peak, idx, error, root, comm_d_calculated>>

\* Variant of the first check that lets an empty list through to the count
\* check, where it is reported as too many pieces.
CheckEmptyLate ==
    /\ pc = "check_empty"
    /\ IF Len(piece_infos) = 0
       THEN Bail("TooManyPieces")
       ELSE /\ pc' = "check_count"
            /\ UNCHANGED <<stack, peak, idx, outcome, error, root, comm_d_calculated, zero_calls>>
    /\ UNCHANGED <<inputs, comm_d, verify_result>>

\* ensure!(!piece_infos.is_empty(), "Missing piece infos")
CheckEmpty ==
    /\ pc = "check_empty"
    /\ IF Len(piece_infos) = 0
       THEN Bail("MissingPieces")
       ELSE /\ pc' = "check_count"
            /\ UNCHANGED <<stack, peak, idx, outcome, error, root, comm_d_calculated, zero_calls>>
    /\ UNCHANGED <<inputs, comm_d, verify_result>>

\* Variant of the count check that rejects a list of exactly
\* unpadded_sector / MINIMUM_PIECE_SIZE pieces.
CheckCountStrict ==
    /\ pc = "check_count"
    /\ IF Len(piece_infos) < ToUnpaddedBytes(sector_size) \div MINIMUM_PIECE_SIZE
       THEN /\ pc' = "check_sum"
            /\ UNCHANGED <<stack, peak, idx, outcome, error, root, comm_d_calculated, zero_calls>>
       ELSE Bail("TooManyPieces")
    /\ UNCHANGED <<inputs, comm_d, verify_result>>

\* ensure!(piece_infos.len() <= unpadded_sector / MINIMUM_PIECE_SIZE, "Too many pieces")
CheckCount ==
    /\ pc = "check_count"
    /\ IF Len(piece_infos) <= ToUnpaddedBytes(sector_size) \div MINIMUM_PIECE_SIZE
       THEN /\ pc' = "check_sum"
            /\ UNCHANGED <<stack, peak, idx, outcome, error, root, comm_d_calculated, zero_calls>>
       ELSE Bail("TooManyPieces")
    /\ UNCHANGED <<inputs, comm_d, verify_result>>

\* piece_infos.iter().map(|info| padded(info.size)).sum()
RECURSIVE SumPadded(_, _)
SumPadded(pieces, n) ==
    IF n = 0 THEN 0 ELSE SumPadded(pieces, n - 1) + ToPaddedBytes(pieces[n].size)

\* Variant of the overflow check that lets every list through.
CheckSumSkipped ==
    /\ pc = "check_sum"
    /\ pc' = "first"
    /\ UNCHANGED <<stack, peak, idx, outcome, error, root, comm_d_calculated, zero_calls>>
    /\ UNCHANGED <<inputs, comm_d, verify_result>>

\* Variant of the overflow check that rejects a list filling the sector exactly.
CheckSumStrict ==
    /\ pc = "check_sum"
    /\ IF SumPadded(piece_infos, Len(piece_infos)) < sector_size
       THEN /\ pc' = "first"
            /\ UNCHANGED <<stack, peak, idx, outcome, error, root, comm_d_calculated, zero_calls>>
       ELSE Bail("PieceOverflow")
    /\ UNCHANGED <<inputs, comm_d, verify_result>>

\* ensure!(piece_size <= sector_size, "Piece is larger than sector.")
CheckSum ==
    /\ pc = "check_sum"
    /\ IF SumPadded(piece_infos, Len(piece_infos)) <= sector_size
       THEN /\ pc' = "first"
            /\ UNCHANGED <<stack, peak, idx, outcome, error, root, comm_d_calculated, zero_calls>>
       ELSE Bail("PieceOverflow")
    /\ UNCHANGED <<inputs, comm_d, verify_result>>

\* Stack::new(); the power-of-two check of the first piece; stack.shift(first)
ShiftFirst ==
    /\ pc = "first"
    /\ IF IsPowerOfTwo(ToPaddedBytes(piece_infos[1].size))
       THEN /\ stack' = shift(StackNew, piece_infos[1])
            /\ peak' = AfterShift(peak, StackNew)
            /\ idx' = 2
            /\ pc' = "loop"
            /\ UNCHANGED <<outcome, error, root, comm_d_calculated, zero_calls>>
       ELSE Bail("NonPow2Piece")
    /\ UNCHANGED <<inputs, comm_d, verify_result>>

\* for piece_info in piece_infos.iter().skip(1): the power-of-two check
NextPiece ==
    /\ pc = "loop"
    /\ idx <= Len(piece_infos)
    /\ IF IsPowerOfTwo(ToPaddedBytes(piece_infos[idx].size))
       THEN /\ pc' = "pad"
            /\ UNCHANGED <<stack, peak, idx, outcome, error, root, comm_d_calculated, zero_calls>>
       ELSE Bail("NonPow2Piece")
    /\ UNCHANGED <<inputs, comm_d, verify_result>>

\* Variant of the zero-padding loop that pads with a zero piece of the size
\* of the incoming piece.
PadPieceWithPieceSize ==
    /\ pc = "pad"
    /\ peek(stack).size < piece_infos[idx].size
    /\ LET z == zero_padding(piece_infos[idx].size)
       IN  /\ zero_calls' = zero_calls + 1
           /\ IF z.asserted
              THEN /\ stack' = shift_reduce(stack, z.piece)
                   /\ peak' = AfterShiftReduce(peak, stack, stack')
                   /\ UNCHANGED <<pc, idx, outcome, error, root, comm_d_calculated>>
              ELSE Panic
    /\ UNCHANGED <<inputs, comm_d, verify_result>>

\* while stack.peek().size < piece_info.size { shift_reduce(zero_padding(..)) }
PadPiece ==
    /\ pc = "pad"
    /\ peek(stack).size < piece_infos[idx].size
    /\ LET z == zero_padding(peek(stack).size)
       IN  /\ zero_calls' = zero_calls + 1
           /\ IF z.asserted
              THEN /\ stack' = shift_reduce(stack, z.piece)
                   /\ peak' = AfterShiftReduce(peak, stack, stack')
                   /\ UNCHANGED <<pc, idx, outcome, error, root, comm_d_calculated>>
              ELSE Panic
    /\ UNCHANGED <<inputs, comm_d, verify_result>>

\* stack.shift_reduce(piece_info.clone())
ShiftPiece ==
    /\ pc = "pad"
    /\ ~(peek(stack).size < piece_infos[idx].size)
    /\ stack' = shift_reduce(stack, piece_infos[idx])
    /\ peak' = AfterShiftReduce(peak, stack, stack')
    /\ idx' = idx + 1
    /\ pc' = "loop"
    /\ UNCHANGED <<inputs, comm_d, outcome, error, root, comm_d_calculated,
                   zero_calls, verify_result>>

\* the for loop is exhausted
EndPieces ==
    /\ pc = "loop"
    /\ idx > Len(piece_infos)
    /\ pc' = "final"
    /\ UNCHANGED <<inputs, comm_d, stack, peak, idx, outcome, error, root,
                   comm_d_calculated, zero_calls, verify_result>>

\* Variant of the final loop that also pads a stack of a single entry.
FinalPadSingleEntry ==
    /\ pc = "final"
    /\ Len(stack) >= 1
    /\ peek(stack).size < SizeLimit
    /\ LET z == zero_padding(peek(stack).size)
       IN  /\ zero_calls' = zero_calls + 1
           /\ IF z.asserted
              THEN /\ stack' = shift_reduce(stack, z.piece)
                   /\ peak' = AfterShiftReduce(peak, stack, stack')
                   /\ UNCHANGED <<pc, idx, outcome, error, root, comm_d_calculated>>
              ELSE Panic
    /\ UNCHANGED <<inputs, comm_d, verify_result>>

\* Variant of the final loop that keeps padding a single entry smaller than
\* the sector.
FinalPadToSector ==
    /\ pc = "final"
    /\ Len(stack) > 1 \/ peek(stack).size < ToUnpaddedBytes(sector_size)
    /\ peek(stack).size < SizeLimit
    /\ LET z == zero_padding(peek(stack).size)
       IN  /\ zero_calls' = zero_calls + 1
           /\ IF z.asserted
              THEN /\ stack' = shift_reduce(stack, z.piece)
                   /\ peak' = AfterShiftReduce(peak, stack, stack')
                   /\ UNCHANGED <<pc, idx, outcome, error, root, comm_d_calculated>>
              ELSE Panic
    /\ UNCHANGED <<inputs, comm_d, verify_result>>

\* while stack.len() > 1 { shift_reduce(zero_padding(stack.peek().size)) }
FinalPad ==
    /\ pc = "final"
    /\ Len(stack) > 1
    /\ peek(stack).size < SizeLimit
    /\ LET z == zero_padding(peek(stack).size)
       IN  /\ zero_calls' = zero_calls + 1
           /\ IF z.asserted
              THEN /\ stack' = shift_reduce(stack, z.piece)
                   /\ peak' = AfterShiftReduce(peak, stack, stack')
                   /\ UNCHANGED <<pc, idx, outcome, error, root, comm_d_calculated>>
              ELSE Panic
    /\ UNCHANGED <<inputs, comm_d, verify_result>>

\* assert_eq!(stack.len(), 1); Ok(stack.pop().commitment)
Finish ==
    /\ pc = "final"
    /\ ~(Len(stack) > 1)
    /\ IF Len(stack) = 1
       THEN /\ root' = peek(stack)
            /\ comm_d_calculated' = peek(stack).commitment
            /\ stack' = pop(stack)
            /\ outcome' = "ok"
            /\ pc' = "done"
            /\ UNCHANGED <<idx, error, peak>>
       ELSE Panic
    /\ UNCHANGED <<inputs, comm_d, zero_calls, verify_result>>

\* Variant of verify_pieces that answers Ok(false) when compute_comm_d fails.
VerifyPiecesErrAsFalse ==
    /\ pc = "done"
    /\ \E claimed \in ClaimedCommitments :
          /\ comm_d' = claimed
          /\ verify_result' = Ok(outcome = "ok" /\ comm_d_calculated = claimed)
    /\ pc' = "returned"
    /\ UNCHANGED <<inputs, stack, peak, idx, outcome, error, root, comm_d_calculated, zero_calls>>

\* verify_pieces: compute_comm_d(..)? then Ok(&comm_d_calculated == comm_d)
VerifyPieces ==
    /\ pc = "done"
    /\ \E claimed \in ClaimedCommitments :
          /\ comm_d' = claimed
          /\ verify_result' =
                IF outcome = "ok"
                THEN Ok(comm_d_calculated = claimed)
                ELSE Err(error)
    /\ pc' = "returned"
    /\ UNCHANGED <<inputs, stack, peak, idx, outcome, error, root, comm_d_calculated, zero_calls>>

Next ==
    \/ CheckEmpty
    \/ CheckCount
    \/ CheckSum
    \/ ShiftFirst
    \/ NextPiece
    \/ PadPiece
    \/ ShiftPiece
    \/ EndPieces
    \/ FinalPad
    \/ Finish
    \/ VerifyPieces

Spec == Init /\ [][Next]_vars

\* compute_comm_d and verify_pieces are non-yielding: a call that can take a
\* step takes it.
LiveSpec == Spec /\ WF_vars(Next)

\* ------------------------------------------- alignment and padding calls
\* No verify_pieces call is in progress.
ComputeIdle ==
    /\ sector_size = 128
    /\ piece_infos = << >>
    /\ comm_d = ZeroBlock
    /\ pc = "idle"
    /\ stack = StackNew
    /\ idx = 0
    /\ outcome = "running"
    /\ error = "none"
    /\ root = NoPiece
    /\ comm_d_calculated = ZeroBlock
    /\ zero_calls = 0
    /\ verify_result = NoResult
    /\ peak = NoPeak

ApiInit == ComputeIdle /\ ApiIdle /\ UnitIdle

\* The arguments and results of a call of one of the alignment functions.
\* Each behaviour follows one call, made from the idle state.
AlignmentCall(name, staged, written, bytes, alignment, num, start) ==
    /\ call' = name
    /\ staged_pieces' = staged
    /\ written_bytes' = written
    /\ piece_bytes' = bytes
    /\ piece_alignment' = alignment
    /\ num_bytes' = num
    /\ start_byte' = start

\* The call returns no reader.
WithoutReader ==
    /\ reader' = NoReader
    /\ sink' = << >>
    /\ read_result' = NoRead

\* The call is not one of the padding functions.
WithoutPadding ==
    /\ data' = << >>
    /\ padded' = << >>
    /\ unpadded' = [error |-> "none", bytes |-> << >>]

\* A call of get_piece_alignment(written_bytes, piece_bytes).
GetPieceAlignment ==
    /\ call = "none"
    /\ \E written \in 0..MaxWritten, bytes \in 0..MaxIncoming :
          AlignmentCall("get_piece_alignment", << >>, written, bytes,
                        get_piece_alignment(written, bytes), 0, 0)
    /\ WithoutReader
    /\ WithoutPadding
    /\ UNCHANGED <<compute, unit>>

\* A call of sum_piece_bytes_with_alignment(pieces).
SumPieceBytesWithAlignment ==
    /\ call = "none"
    /\ \E staged \in StagedLists :
          AlignmentCall("sum_piece_bytes_with_alignment", staged, 0, 0, NoAlignment,
                        sum_piece_bytes_with_alignment(staged), 0)
    /\ WithoutReader
    /\ WithoutPadding
    /\ UNCHANGED <<compute, unit>>

\* A call of get_piece_start_byte(pieces, piece_bytes).
GetPieceStartByte ==
    /\ call = "none"
    /\ \E staged \in StagedLists, bytes \in StagedSizes :
          LET last_byte == sum_piece_bytes_with_alignment(staged)
          IN  AlignmentCall("get_piece_start_byte", staged, last_byte, bytes,
                            get_piece_alignment(last_byte, bytes), 0,
                            get_piece_start_byte(staged, bytes))
    /\ WithoutReader
    /\ WithoutPadding
    /\ UNCHANGED <<compute, unit>>

\* A call of get_aligned_source(source, pieces, piece_bytes) with an
\* in-memory source.
GetAlignedSource ==
    /\ call = "none"
    /\ \E staged \in SourceStagedLists, bytes \in StagedSizes :
          \E len \in SourceLens(bytes) :
             LET r == get_aligned_source(Cursor(SourceBytes(len)), staged, bytes)
             IN  /\ AlignmentCall("get_aligned_source", staged,
                                  sum_piece_bytes_with_alignment(staged), bytes,
                                  r.piece_alignment, r.expected_num_bytes_written, 0)
                 /\ reader' = r.reader
    /\ sink' = << >>
    /\ read_result' = NoRead
    /\ WithoutPadding
    /\ UNCHANGED <<compute, unit>>

\* One read, into a buffer of n bytes, on the reader get_aligned_source
\* returned; the caller stops at the first read of 0 bytes.
ReadAlignedSource ==
    /\ call = "get_aligned_source"
    /\ read_result # ReadOk(0)
    /\ \E n \in ReadSizes :
          LET r == outer_chain_read(reader, n)
          IN  /\ reader' = r.reader
              /\ sink' = sink \o r.bytes
              /\ read_result' = ReadOk(Len(r.bytes))
    /\ UNCHANGED <<call, staged_pieces, written_bytes, piece_bytes, piece_alignment,
                   num_bytes, start_byte, data, padded, unpadded>>
    /\ UNCHANGED <<compute, unit>>

\* write_padded_bench, and write_padded_unpadded_bench up to its first
\* assert: write_padded(&data, &mut file), then
\* assert!(padded_written > data.len())
WritePaddedBench ==
    /\ call = "none"
    /\ \E len \in DataLens, mul \in DataMuls, add \in DataAdds :
          LET bytes == DataBytes(len, mul, add)
              written == write_padded(bytes)
          IN  /\ data' = bytes
              /\ padded' = written
              /\ AlignmentCall(IF Len(written) > Len(bytes)
                                   THEN "write_padded" ELSE "write_padded_panicked",
                               << >>, 0, 0, NoAlignment, 0, 0)
    /\ unpadded' = [error |-> "none", bytes |-> << >>]
    /\ WithoutReader
    /\ UNCHANGED <<compute, unit>>

\* Variant of the second half of write_padded_unpadded_bench that unpads
\* from offset 1.
WriteUnpaddedBenchOffsetOne ==
    /\ call = "write_padded"
    /\ unpadded' = write_unpadded(padded, 1, Len(data))
    /\ call' = (IF unpadded'.error = "none" /\ Len(unpadded'.bytes) = Len(data)
                 THEN "write_unpadded" ELSE "write_unpadded_panicked")
    /\ UNCHANGED <<staged_pieces, written_bytes, piece_bytes, piece_alignment,
                   num_bytes, start_byte, reader, sink, read_result, data, padded>>
    /\ UNCHANGED <<compute, unit>>

\* write_padded_unpadded_bench, after its first assert:
\* write_unpadded(&buf, &mut unpadded_file, 0, data.len()).unwrap(), then
\* assert!(unpadded_written == data.len())
WriteUnpaddedBench ==
    /\ call = "write_padded"
    /\ unpadded' = write_unpadded(padded, 0, Len(data))
    /\ call' = (IF unpadded'.error = "none" /\ Len(unpadded'.bytes) = Len(data)
                 THEN "write_unpadded" ELSE "write_unpadded_panicked")
    /\ UNCHANGED <<staged_pieces, written_bytes, piece_bytes, piece_alignment,
                   num_bytes, start_byte, reader, sink, read_result, data, padded>>
    /\ UNCHANGED <<compute, unit>>

\* A call of Stack::reduce1 on a stack of its own.
Reduce1Call ==
    /\ call = "none"
    /\ \E s \in UnitStacks :
          LET r == reduce1(s)
          IN  /\ stack_before' = s
              /\ stack_after' = r.stack
              /\ reduced' = r.reduced
    /\ AlignmentCall("reduce1", << >>, 0, 0, NoAlignment, 0, 0)
    /\ WithoutReader
    /\ WithoutPadding
    /\ UNCHANGED <<compute, padding>>

\* A call of zero_padding(size); it panics when its assert_eq! fails.
ZeroPaddingCall ==
    /\ call = "none"
    /\ \E size \in ZeroSizes :
          LET z == zero_padding(size)
          IN  /\ padding' = z
              /\ AlignmentCall(IF z.asserted THEN "zero_padding" ELSE "zero_padding_panicked",
                               << >>, 0, size, NoAlignment, 0, 0)
    /\ WithoutReader
    /\ WithoutPadding
    /\ UNCHANGED <<compute, stack_before, stack_after, reduced>>

ApiNext ==
    \/ GetPieceAlignment
    \/ SumPieceBytesWithAlignment
    \/ GetPieceStartByte
    \/ GetAlignedSource
    \/ ReadAlignedSource
    \/ WritePaddedBench
    \/ WriteUnpaddedBench
    \/ Reduce1Call
    \/ ZeroPaddingCall

ApiSpec == ApiInit /\ [][ApiNext]_vars

TypeOK ==
    /\ sector_size \in SectorSizes
    /\ pc \in {"idle", "check_empty", "check_count", "check_sum", "first", "loop", "pad",
               "final", "done", "panicked", "returned"}
    /\ outcome \in {"running", "ok", "err", "panic"}
    /\ zero_calls \in Nat

\* ------------------------------------------------------------- vocabulary
\* compute_comm_d has returned (to verify_pieces, or verify_pieces to its caller).
Returned == pc \in {"done", "returned"}

\* compute_comm_d has returned a commitment.
Accepted == Returned /\ outcome = "ok"

\* n is 127 * 2^k for some k >= 0.
IsPieceSize(n) == n > 0 /\ n % 127 = 0 /\ IsPowerOfTwo(n \div 127)

AllPieceSizes(pieces) == \A j \in DOMAIN pieces : IsPieceSize(pieces[j].size)

SizesOf(pieces) == [j \in DOMAIN pieces |-> pieces[j].size]

\* The byte after the slot of piece j when every piece is placed at the next
\* multiple of its own size after the pieces before it.
RECURSIVE PieceEnd(_, _)
PieceEnd(pieces, j) ==
    IF j = 0 THEN 0
    ELSE LET size == pieces[j].size
             before == PieceEnd(pieces, j - 1)
         IN  ((before + size - 1) \div size) * size + size

PieceStart(pieces, j) == PieceEnd(pieces, j) - pieces[j].size

\* The smallest 127 * 2^k that is at least n.
RECURSIVE SpanFrom(_, _)
SpanFrom(span, n) == IF span >= n THEN span ELSE SpanFrom(span * 2, n)

RootSpan(pieces) == SpanFrom(127, PieceEnd(pieces, Len(pieces)))

\* The commitment of the zero piece of 127 bytes.
ZeroLeaf == zero_padding(127).piece.commitment

\* Root of the sub-tree over the bytes [lo, lo + span): the commitment of the
\* piece that occupies exactly this range, a zero leaf for an empty range of
\* 127 bytes, and otherwise the hash of the roots of the two halves.
RECURSIVE MerkleRoot(_, _, _)
MerkleRoot(pieces, lo, span) ==
    LET here == {j \in DOMAIN pieces :
                    PieceStart(pieces, j) = lo /\ pieces[j].size = span}
    IN  IF here # {} THEN pieces[CHOOSE j \in here : TRUE].commitment
        ELSE IF span <= 127 THEN ZeroLeaf
        ELSE piece_hash(MerkleRoot(pieces, lo, span \div 2),
                        MerkleRoot(pieces, lo + span \div 2, span \div 2))

\* ------------------------------------------------------------------ C1
\* The pieces of 1, 4, 2 and 8 times 127 bytes in a sector of 32 * 128.
ScenarioB ==
    /\ sector_size = 32 * 128
    /\ SizesOf(piece_infos) = <<127, 4 * 127, 2 * 127, 8 * 127>>

\* The root over the leaves A,P,P,P,B(4),C(2),Px6,D(8),Px8, written out.
ScenarioBRoot ==
    LET P == ZeroLeaf
        PP == piece_hash(P, P)
        P4 == piece_hash(PP, PP)
        P8 == piece_hash(P4, P4)
        A == <<1>>
        B == <<2>>
        C == <<3>>
        D == <<4>>
        left8 == piece_hash(piece_hash(piece_hash(A, P), PP), B)
        right8 == piece_hash(piece_hash(C, PP), P4)
    IN  piece_hash(piece_hash(left8, right8), piece_hash(D, P8))

\* C1: for every accepted list whose sizes are all 127 * 2^k, the commitment
\* compute_comm_d returns is the root of the Merkle tree in which every piece
\* is the sub-tree at the next multiple of its size and every gap, up to the
\* span of the root, is filled with zero leaves; for the sizes 1, 4, 2, 8 in
\* a sector of 32 * 128 this is the root over A,P,P,P,B,C,Px6,D,Px8.
C1_CommDIsMerkleRoot ==
    (Accepted /\ AllPieceSizes(piece_infos)) =>
        /\ comm_d_calculated = MerkleRoot(piece_infos, 0, RootSpan(piece_infos))
        /\ ScenarioB => comm_d_calculated = ScenarioBRoot

C1_Witness ==
    /\ Accepted
    /\ ScenarioB
    /\ zero_calls > 0

\* ------------------------------------------------------------------ C2
\* Pieces j and j + 1 have the same size and together fill an aligned slot of
\* twice that size.
SiblingPair(pieces, j) ==
    /\ j \in 1..(Len(pieces) - 1)
    /\ pieces[j].size = pieces[j + 1].size
    /\ PieceStart(pieces, j) % (2 * pieces[j].size) = 0

\* The list with pieces j and j + 1 replaced by their join.
JoinAt(pieces, j) ==
    [i \in 1..(Len(pieces) - 1) |->
        IF i < j THEN pieces[i]
        ELSE IF i = j
             THEN PieceInfo(piece_hash(pieces[j].commitment, pieces[j + 1].commitment),
                            pieces[j].size + pieces[j + 1].size)
             ELSE pieces[i + 1]]

FourPieces ==
    /\ sector_size = 4 * 128
    /\ SizesOf(piece_infos) = <<127, 127, 127, 127>>

\* C2: four pieces of 127 bytes in a sector of 4 * 128 give
\* H(H(a, b), H(c, d)), and replacing an aligned sibling pair of an accepted
\* list by its join gives a list with the same comm_d.
C2_JoinInvariant ==
    (Accepted /\ AllPieceSizes(piece_infos)) =>
        /\ FourPieces =>
              comm_d_calculated =
                  piece_hash(piece_hash(<<1>>, <<2>>), piece_hash(<<3>>, <<4>>))
        /\ \A j \in 1..(Len(piece_infos) - 1) :
              SiblingPair(piece_infos, j) =>
                  comm_d_of(JoinAt(piece_infos, j)) = comm_d_calculated

C2_Witness ==
    /\ Accepted
    /\ FourPieces
    /\ SiblingPair(piece_infos, 1)
    /\ SiblingPair(piece_infos, 3)
    /\ comm_d_of(JoinAt(JoinAt(piece_infos, 1), 2)) = comm_d_calculated

\* ------------------------------------------------------------------ C3
\* C3: verify_pieces returns Ok(true) exactly when compute_comm_d returned a
\* commitment equal to the claimed one, Ok(false) when it returned another
\* commitment, and the error of compute_comm_d when that failed.
C3_VerifyMatchesCompute ==
    pc = "returned" =>
        /\ (outcome = "ok" /\ comm_d_calculated = comm_d) => verify_result = Ok(TRUE)
        /\ (outcome = "ok" /\ comm_d_calculated # comm_d) => verify_result = Ok(FALSE)
        /\ outcome = "err" => verify_result = Err(error)
        /\ verify_result = Ok(TRUE) => (outcome = "ok" /\ comm_d_calculated = comm_d)

C3_Witness ==
    /\ pc = "returned"
    /\ verify_result = Ok(TRUE)
    /\ Len(piece_infos) = 2
    /\ zero_calls > 0

\* ------------------------------------------------------------------ C4
\* C4: whenever compute_comm_d returns a commitment, the entry popped from
\* the stack has the unpadded size of the sector.
C4_RootSpansSector ==
    (Accepted /\ AllPieceSizes(piece_infos)) =>
        root.size = ToUnpaddedBytes(sector_size)

\* ------------------------------------------------------------------ C5
\* C5: whenever compute_comm_d returns a commitment, the entry popped from
\* the stack is not larger than the sector.
C5_RootFitsSector ==
    (Accepted /\ AllPieceSizes(piece_infos)) =>
        root.size <= ToUnpaddedBytes(sector_size)

\* ------------------------------------------------------------------ C6
\* c joined with the zero pieces of 127, 254, ... bytes, n levels in all.
RECURSIVE PaddedLevels(_, _)
PaddedLevels(c, n) ==
    IF n = 0 THEN c
    ELSE piece_hash(PaddedLevels(c, n - 1),
                    zero_padding(127 * (2 ^ (n - 1))).piece.commitment)

\* C6: a single piece of 127 bytes in a sector of 127 * 2^n unpadded bytes
\* gives the piece commitment padded by n zero-piece levels.
C6_SinglePiecePadded ==
    (Accepted /\ SizesOf(piece_infos) = <<127>>) =>
        \A n \in 0..MaxSectorExp :
            ToUnpaddedBytes(sector_size) = 127 * (2 ^ n) =>
                comm_d_calculated = PaddedLevels(piece_infos[1].commitment, n)

\* ------------------------------------------------------------------ C7
\* C7: a single piece whose padded size is the sector size gives exactly the
\* commitment of the piece, and zero_padding is not called.
C7_FullSectorPiece ==
    (Returned /\ Len(piece_infos) = 1
              /\ ToPaddedBytes(piece_infos[1].size) = sector_size) =>
        /\ outcome = "ok"
        /\ comm_d_calculated = piece_infos[1].commitment
        /\ zero_calls = 0

C7_Witness ==
    /\ Accepted
    /\ Len(piece_infos) = 1
    /\ ToPaddedBytes(piece_infos[1].size) = sector_size
    /\ piece_infos[1].size > 127
    /\ comm_d_calculated = <<1>>

\* ------------------------------------------------------------------ C8
\* C8: compute_comm_d ends in an error whenever some piece, at any position,
\* has a size that is not 127 * 2^k.
C8_NonPow2Rejected ==
    (pc \in {"done", "returned", "panicked"} /\ ~AllPieceSizes(piece_infos)) =>
        outcome = "err"

\* ------------------------------------------------------------------ C9
\* C9: compute_comm_d ends in an error whenever some piece is smaller than
\* the minimum piece size.
C9_BelowMinimumRejected ==
    (\E j \in DOMAIN piece_infos : piece_infos[j].size < MINIMUM_PIECE_SIZE) =>
        (outcome # "ok" /\ outcome # "panic")

\* ------------------------------------------------------------------ C10
Overflows == SumPadded(piece_infos, Len(piece_infos)) > sector_size

PieceOverflowRaised == outcome = "err" /\ error = "PieceOverflow"

\* C10 as stated: PieceOverflow exactly when the padded sizes sum to more
\* than the sector size.
C10_OverflowIffSumExceeds ==
    Returned => (PieceOverflowRaised <=> Overflows)

\* C10, amended: PieceOverflow exactly when the list is not empty, has at
\* most unpadded(sector_size) / 127 pieces and its padded sizes sum to more
\* than the sector size.
C10_OverflowAfterCountCheck ==
    Returned =>
        (PieceOverflowRaised <=>
            /\ Len(piece_infos) > 0
            /\ Len(piece_infos) <= ToUnpaddedBytes(sector_size) \div MINIMUM_PIECE_SIZE
            /\ Overflows)

C10_Witness ==
    /\ Returned
    /\ PieceOverflowRaised
    /\ Len(piece_infos) > 1
    /\ AllPieceSizes(piece_infos)

\* ------------------------------------------------------------------ C11
TooManyPiecesRaised == outcome = "err" /\ error = "TooManyPieces"

\* C11: for a non-empty list, compute_comm_d returns TooManyPieces exactly
\* when the list has more than unpadded(sector_size) / 127 pieces.
C11_TooManyIffCountExceeds ==
    (Returned /\ Len(piece_infos) > 0) =>
        (TooManyPiecesRaised <=>
            Len(piece_infos) > ToUnpaddedBytes(sector_size) \div 127)

C11_Witness ==
    /\ Returned
    /\ TooManyPiecesRaised
    /\ Len(piece_infos) = 3
    /\ sector_size = 2 * 128
    /\ SumPadded(piece_infos, Len(piece_infos)) <= sector_size

\* ------------------------------------------------------------------ C12
\* C12: for an empty list, whatever the sector size, compute_comm_d returns
\* MissingPieces, verify_pieces returns the same error, and the stack was
\* never touched and zero_padding never called.
C12_EmptyListMissingPieces ==
    (Len(piece_infos) = 0) =>
        /\ stack = StackNew
        /\ zero_calls = 0
        /\ outcome \in {"running", "err"}
        /\ Returned => (outcome = "err" /\ error = "MissingPieces")
        /\ pc = "returned" => verify_result = Err("MissingPieces")

C12_Witness ==
    /\ Len(piece_infos) = 0
    /\ pc = "returned"
    /\ verify_result = Err("MissingPieces")
    /\ sector_size = 128 * (2 ^ MaxSectorExp)

\* ------------------------------------------------------------------ C13
\* The smallest 127 * 2^k (k >= 0) that is at least incoming.
SlotSize(incoming) == SpanFrom(127, incoming)

AlignmentCalled == call = "get_piece_alignment"

\* C13: the left padding returned by get_piece_alignment brings the bytes
\* written to a multiple of the slot size P of the piece, and is less than P.
C13_LeftAligns ==
    AlignmentCalled =>
        LET P == SlotSize(piece_bytes)
        IN  /\ (written_bytes + piece_alignment.left_bytes) % P = 0
            /\ 0 <= piece_alignment.left_bytes
            /\ piece_alignment.left_bytes < P

C13_Witness ==
    /\ AlignmentCalled
    /\ written_bytes = 300
    /\ piece_bytes = 255
    /\ piece_alignment.left_bytes = 208

\* ------------------------------------------------------------------ C14
\* C14 as stated: left padding, piece and right padding together are
\* exactly the slot size P of the piece.
C14_SumIsSlot ==
    AlignmentCalled =>
        alignment_sum(piece_alignment, piece_bytes) = SlotSize(piece_bytes)

\* C14, amended: the piece and its right padding are exactly the slot size
\* P, so left padding, piece and right padding together are left + P, which
\* is P only when the bytes written are a multiple of P.
C14_PieceAndRightFillSlot ==
    AlignmentCalled =>
        LET P == SlotSize(piece_bytes)
        IN  /\ piece_bytes + piece_alignment.right_bytes = P
            /\ alignment_sum(piece_alignment, piece_bytes)
                  = piece_alignment.left_bytes + P
            /\ (alignment_sum(piece_alignment, piece_bytes) = P)
                  <=> (written_bytes % P = 0)

C14_Witness ==
    /\ AlignmentCalled
    /\ written_bytes = 200
    /\ piece_bytes = 200
    /\ piece_alignment = PieceAlignment(54, 54)

\* ------------------------------------------------------------------ C15
\* The rows (written, incoming, left, right) of test_get_piece_alignment
\* named by the claim.
AlignmentTable ==
    {<<0, 0, 0, 127>>, <<0, 127, 0, 0>>, <<0, 254, 0, 0>>, <<127, 127, 0, 0>>,
     <<127, 254, 127, 0>>, <<127, 508, 381, 0>>, <<100, 100, 27, 27>>,
     <<200, 200, 54, 54>>, <<300, 300, 208, 208>>}

\* C15: left is P - (written mod P) when written mod P > 0 and 0 otherwise,
\* right is P - incoming, and the rows of the table come out as listed.
C15_AlignmentValues ==
    AlignmentCalled =>
        LET P == SlotSize(piece_bytes)
            e == written_bytes % P
        IN  /\ P >= 127
            /\ piece_alignment.left_bytes = (IF e > 0 THEN P - e ELSE 0)
            /\ piece_alignment.right_bytes = P - piece_bytes
            /\ \A row \in AlignmentTable :
                  (written_bytes = row[1] /\ piece_bytes = row[2]) =>
                      piece_alignment = PieceAlignment(row[3], row[4])

C15_Witness ==
    /\ AlignmentCalled
    /\ written_bytes = 127
    /\ piece_bytes = 508
    /\ piece_alignment = PieceAlignment(381, 0)

\* ------------------------------------------------------------------ C16
Prefix(seq, n) == SubSeq(seq, 1, n)

\* C16: after each piece of the fold the running total is a multiple of the
\* slot size P of that piece and of 127, the piece and its right padding
\* fill the slot [start, start + P) that ends at the total, the slot starts
\* at a multiple of P, and it starts no earlier than the previous total.
C16_SlotsAligned ==
    call = "sum_piece_bytes_with_alignment" =>
        /\ num_bytes = sum_piece_bytes_with_alignment(staged_pieces)
        /\ \A i \in 1..Len(staged_pieces) :
              LET P == SlotSize(staged_pieces[i])
                  before == sum_piece_bytes_with_alignment(Prefix(staged_pieces, i - 1))
                  total == sum_piece_bytes_with_alignment(Prefix(staged_pieces, i))
                  start == get_piece_start_byte(Prefix(staged_pieces, i - 1),
                                                staged_pieces[i])
              IN  /\ total % P = 0
                  /\ total % 127 = 0
                  /\ start % P = 0
                  /\ total = start + P
                  /\ start >= before
                  /\ staged_pieces[i] <= P

C16_Witness ==
    /\ call = "sum_piece_bytes_with_alignment"
    /\ staged_pieces = <<100, 300, 127>>
    /\ num_bytes = 508 + 508 + 127

\* ------------------------------------------------------------------ C17
\* The end of the slot of piece j when every piece is given the next slot
\* of its own slot size after the pieces before it.
RECURSIVE SlotEnd(_, _)
SlotEnd(sizes, j) ==
    IF j = 0 THEN 0
    ELSE LET P == SlotSize(sizes[j])
             before == SlotEnd(sizes, j - 1)
         IN  ((before + P - 1) \div P) * P + P

\* C17: get_piece_start_byte is the aligned total of the pieces before plus
\* the left padding of the incoming piece and nothing of its right padding;
\* the sizes 31, 32, 33 start at 0, 127 and 254.
C17_StartByte ==
    call = "get_piece_start_byte" =>
        LET P == SlotSize(piece_bytes)
            before == SlotEnd(staged_pieces, Len(staged_pieces))
        IN  /\ written_bytes = before
            /\ start_byte = ((before + P - 1) \div P) * P
            /\ start_byte = written_bytes + piece_alignment.left_bytes
            /\ (staged_pieces = << >> /\ piece_bytes = 31) => start_byte = 0
            /\ (staged_pieces = <<31>> /\ piece_bytes = 32) => start_byte = 127
            /\ (staged_pieces = <<31, 32>> /\ piece_bytes = 33) => start_byte = 254

C17_Witness ==
    /\ call = "get_piece_start_byte"
    /\ staged_pieces = <<31, 32>>
    /\ piece_bytes = 33
    /\ start_byte = 254
    /\ piece_alignment.right_bytes = 94

\* ------------------------------------------------------------------ C18
\* The source handed to get_aligned_source.
SourceOf(r) == r.first.second.inner

\* C18: when the source is shorter than piece_bytes, the read that leaves
\* the source for the right padding reports an error.
C18_UnderflowReported ==
    (call = "get_aligned_source"
        /\ Len(SourceOf(reader)) < piece_bytes
        /\ reader.done_first) =>
        read_result.kind = "Err"

\* ------------------------------------------------------------------ C19
IsPrefix(a, b) == Len(a) <= Len(b) /\ a = SubSeq(b, 1, Len(a))

\* C19: get_aligned_source returns left + piece_bytes + right for the
\* alignment of the piece against the aligned total of the staged pieces,
\* and a reader that yields the left zero bytes, the source unchanged and
\* the right zero bytes, in this order: expected_num_bytes_written bytes in
\* all when the source has exactly piece_bytes bytes.
C19_AlignedSource ==
    call = "get_aligned_source" =>
        LET P == SlotSize(piece_bytes)
            before == SlotEnd(staged_pieces, Len(staged_pieces))
            left == ((before + P - 1) \div P) * P - before
            right == P - piece_bytes
            all == Zeros(left) \o SourceOf(reader) \o Zeros(right)
        IN  /\ piece_alignment = PieceAlignment(left, right)
            /\ num_bytes = left + piece_bytes + right
            /\ IsPrefix(sink, all)
            /\ read_result = ReadOk(0) => sink = all
            /\ (read_result = ReadOk(0) /\ Len(SourceOf(reader)) = piece_bytes) =>
                   Len(sink) = num_bytes

C19_Witness ==
    /\ call = "get_aligned_source"
    /\ read_result = ReadOk(0)
    /\ piece_bytes = 300
    /\ Len(SourceOf(reader)) = 300
    /\ piece_alignment = PieceAlignment(381, 208)
    /\ Len(sink) = 889

\* ------------------------------------------------------------------ C20
\* write_padded has been called on data.
PaddedCalled ==
    call \in {"write_padded", "write_padded_panicked",
              "write_unpadded", "write_unpadded_panicked"}

\* write_unpadded has been called on the padded bytes.
UnpaddedCalled == call \in {"write_unpadded", "write_unpadded_panicked"}

RoundTrip ==
    /\ unpadded.error = "none"
    /\ Len(unpadded.bytes) = Len(data)
    /\ unpadded.bytes = data

RECURSIVE StackSum(_)
StackSum(s) == IF Len(s) = 0 THEN 0 ELSE StackSum(pop(s)) + peek(s).size

\* The zero-padding loop of the piece at idx has ended: the piece is shifted next.
ReadyToShift == pc = "pad" /\ ~(peek(stack).size < piece_infos[idx].size)

\* C21: for pieces of sizes 127 * 2^k, the sizes on the stack just before a
\* piece is shifted add up to get_piece_start_byte of the sizes before it
\* and its own size, and after it has been shift-reduced they add up to
\* sum_piece_bytes_with_alignment of the sizes up to it.
C21_SameOffsets ==
    AllPieceSizes(piece_infos) =>
        LET sizes == SizesOf(piece_infos)
        IN  /\ pc = "first" =>
                  StackSum(stack) = get_piece_start_byte(<< >>, sizes[1])
            /\ ReadyToShift =>
                  StackSum(stack) = get_piece_start_byte(Prefix(sizes, idx - 1), sizes[idx])
            /\ pc = "loop" =>
                  StackSum(stack) = sum_piece_bytes_with_alignment(Prefix(sizes, idx - 1))

C21_Witness ==
    /\ ReadyToShift
    /\ SizesOf(piece_infos) = <<254, 127, 254>>
    /\ idx = 3
    /\ zero_calls = 1
    /\ StackSum(stack) = 508

\* ------------------------------------------------------------------ C22
\* The sizes on the stack are strictly decreasing from bottom to top.
StrictlyDecreasing(s) == \A j \in 1..(Len(s) - 1) : s[j].size > s[j + 1].size

\* A reduce() has completed and compute_comm_d is still running.
AtRest == pc \in {"loop", "pad", "final"} /\ peak.rest > 0

\* C22: every time a reduce() has completed, the sizes on the reduction
\* stack are strictly decreasing from bottom to top.
C22_StrictlyDecreasing == AtRest => StrictlyDecreasing(stack)

\* ------------------------------------------------------------------ C23
\* compute_comm_d has returned an error.
Rejected == Returned /\ outcome = "err"

\* C23: on a rejected input no stack operation and no hashing has been
\* performed: the stack was never shifted and zero_padding never called.
C23_RejectedBeforeShift ==
    Rejected => (stack = StackNew /\ peak = NoPeak /\ zero_calls = 0)

\* ------------------------------------------------------------------ C24
\* C24: for every piece list that passes the input checks, no internal
\* assertion fails during the computation.
C24_NoAssertionFails == outcome # "panic"

\* ------------------------------------------------------------------ C25
\* reduce1 is called on a stack whose two top entries have the same size.
TopTwoEqual ==
    /\ Len(stack_before) >= 2
    /\ stack_before[Len(stack_before)].size = stack_before[Len(stack_before) - 1].size

\* C25: on a stack of at least two entries whose top two sizes are equal,
\* reduce1 replaces the two by one entry with the sum of the sizes and the
\* hash of the second-from-top commitment (left) and the top commitment
\* (right), leaves the entries below unchanged and returns true; otherwise
\* it returns false and leaves the stack unchanged.
C25_Reduce1Frame ==
    call = "reduce1" =>
        LET n == Len(stack_before)
        IN  IF TopTwoEqual
            THEN /\ reduced
                 /\ Len(stack_after) = n - 1
                 /\ \A j \in 1..(n - 2) : stack_after[j] = stack_before[j]
                 /\ stack_after[n - 1].size
                       = stack_before[n - 1].size + stack_before[n].size
                 /\ stack_after[n - 1].commitment
                       = piece_hash(stack_before[n - 1].commitment,
                                    stack_before[n].commitment)
            ELSE /\ ~reduced
                 /\ stack_after = stack_before

C25_Witness ==
    /\ call = "reduce1"
    /\ reduced
    /\ stack_before = <<PieceInfo(<<1>>, 254), PieceInfo(<<1>>, 127), PieceInfo(<<2>>, 127)>>
    /\ stack_after = <<PieceInfo(<<1>>, 254), PieceInfo(<< <<1>>, <<2>> >>, 254)>>

\* ------------------------------------------------------------------ C26
ZeroPaddingReturned == call = "zero_padding"

\* C26 as stated: zero_padding of the 127-byte zero piece returns the zero
\* block hashed against itself exactly once.
C26_ZeroPieceHashedOnce ==
    (ZeroPaddingReturned /\ piece_bytes = 127) =>
        padding.piece.commitment = piece_hash(ZeroBlock, ZeroBlock)

\* C26, amended: zero_padding of the 127-byte zero piece returns
\* piece_hash(h, h) for h = piece_hash(0, 0): the zero block is hashed
\* against itself and the result against itself, one level for each of the
\* two doublings from 32 to the 128 padded bytes.
C26_ZeroPieceHashedTwice ==
    (call \in {"zero_padding", "zero_padding_panicked"} /\ piece_bytes = 127) =>
        LET h == piece_hash(ZeroBlock, ZeroBlock)
        IN  /\ ZeroPaddingReturned
            /\ padding.piece = PieceInfo(piece_hash(h, h), 127)

C26_Witness ==
    /\ ZeroPaddingReturned
    /\ piece_bytes = 127
    /\ padding.asserted
    /\ padding.piece.commitment = << <<ZeroBlock, ZeroBlock>>, <<ZeroBlock, ZeroBlock>> >>

\* ------------------------------------------------------------------ C27
\* n times h <- piece_hash(h, h).
RECURSIVE SelfHash(_, _)
SelfHash(h, n) == IF n = 0 THEN h ELSE SelfHash(piece_hash(h, h), n - 1)

\* The exponent of a power of two.
RECURSIVE Log2(_)
Log2(n) == IF n <= 1 THEN 0 ELSE 1 + Log2(n \div 2)

\* C27: for size = 127 * 2^k, zero_padding(size) passes its assertion
\* hashed_size == padded(size), returns the size unchanged and the
\* commitment piece_hash(0, 0) self-hashed once per doubling of hashed_size
\* from 64 to padded(size); zero_padding(2 * size) is the join of
\* zero_padding(size) with itself.
C27_ZeroPaddingDoubles ==
    (call \in {"zero_padding", "zero_padding_panicked"} /\ IsPieceSize(piece_bytes)) =>
        /\ ZeroPaddingReturned
        /\ padding.asserted
        /\ padding.piece.size = piece_bytes
        /\ padding.piece.commitment
              = SelfHash(piece_hash(ZeroBlock, ZeroBlock),
                         Log2(ToPaddedBytes(piece_bytes) \div 64))
        /\ zero_padding(2 * piece_bytes).asserted
        /\ zero_padding(2 * piece_bytes).piece
              = join_piece_infos(padding.piece, padding.piece)

C27_Witness ==
    /\ ZeroPaddingReturned
    /\ piece_bytes = 508
    /\ padding.piece.size = 508
    /\ padding.piece.commitment = SelfHash(ZeroBlock, 4)

\* ------------------------------------------------------------------ C28
\* C28: compute_comm_d terminates on every input: it returns an error, or
\* its loops end and it returns the commitment of the single stack entry.
C28_Terminates == <>Returned

\* ------------------------------------------------------------------ C29
\* log2(S / 128) + 1 for a sector of S padded bytes.
StackBound == Log2(sector_size \div 128) + 1

C30_SectorSizeIrrelevant ==
    Accepted =>
        /\ comm_d_calculated = comm_d_of(piece_infos)
        /\ root.size = peek(pad_to_root(fold_pieces(shift(StackNew, piece_infos[1]),
                                                    piece_infos, 2))).size

C30_Witness ==
    /\ Accepted
    /\ sector_size = 4096
    /\ SizesOf(piece_infos) = <<127, 254>>
    /\ comm_d_calculated = piece_hash(piece_hash(<<1>>, zero_padding(127).piece.commitment), <<2>>)
====
